---- MODULE Spec2Model ----
(***************************************************************************)
(* Model of the streaming MP3 decoder of src/src/lib.rs: the byte ring     *)
(* buffer, the refill-then-decode drive loop of next_frame /               *)
(* next_frame_with_pcm and its suspending twin next_frame_future /         *)
(* next_frame_with_pcm_future, decode_frame, and the Pcm sample buffer.    *)
(*                                                                         *)
(* The frame decoding primitive ffi::mp3dec_decode_frame is not part of    *)
(* the source file; it is modelled from its contract (a byte window in,    *)
(* samples produced / bytes consumed / frame metadata out).                *)
(*                                                                         *)
(* Sizes are scaled: the source's MAX_SAMPLES_PER_FRAME is 1152 * 2; the   *)
(* model keeps every size as the same multiple of MAX_SAMPLES_PER_FRAME    *)
(* and makes that unit small.                                              *)
(***************************************************************************)
EXTENDS Integers, Sequences, FiniteSets, TLC

\* ------------------------------------------------------------------ bounds

\* The model's value of MAX_SAMPLES_PER_FRAME (2304 in the source).
Scale == 2
\* Bytes of one valid frame of the input stream.
FrameLen == 8
\* At most this many valid frames in an input stream.
MaxFrames == 2
\* At most this many garbage bytes in an input stream.
MaxGarbage == 1
\* At most this many public calls on one decoder: enough to return every
\* frame, to meet Eof, and to call again after it.
MaxCalls == MaxFrames + 2
\* The per-call counters of reads and primitive invocations saturate here.
CountCap == 2

\* --------------------------------------------------------------- constants

MAX_SAMPLES_PER_FRAME == Scale
BUFFER_SIZE == MAX_SAMPLES_PER_FRAME * 15
REFILL_TRIGGER == MAX_SAMPLES_PER_FRAME * 8
\* Length of the scratch array buffer_refill.
BUFFER_REFILL_LEN == MAX_SAMPLES_PER_FRAME * 5

Min(a, b) == IF a < b THEN a ELSE b
Max(a, b) == IF a < b THEN b ELSE a

\* ------------------------------------------------------------ input streams

\* A stream is a sequence of bytes.  A garbage byte is 0; the k-th valid frame
\* of the stream is FrameLen bytes, each of value k.
RECURSIVE Flatten(_, _)
Flatten(segs, k) ==
    IF segs = <<>> THEN <<>>
    ELSE IF Head(segs) = "F"
         THEN [j \in 1..FrameLen |-> k] \o Flatten(Tail(segs), k + 1)
         ELSE <<0>> \o Flatten(Tail(segs), k)

Count(segs, c) == Cardinality({i \in DOMAIN segs : segs[i] = c})

SegSeqs ==
    {s \in UNION {[1..n -> {"F", "G"}] : n \in 0..(MaxFrames + MaxGarbage)} :
        Count(s, "F") <= MaxFrames /\ Count(s, "G") <= MaxGarbage}

Streams == {Flatten(s, 1) : s \in SegSeqs}

\* Number of valid frames of a stream, and whether it holds garbage.
NumFrames(s) == Cardinality({s[i] : i \in DOMAIN s} \ {0})
HasGarbage(s) == \E i \in DOMAIN s : s[i] = 0

\* ------------------------------------------------------- decode primitive

\* mp3dec_frame_info_t values a successful decode may report.
FrameInfos ==
    { [hz |-> 44100, channels |-> 2, layer |-> 3, bitrate_kbps |-> 128],
      [hz |-> 22050, channels |-> 1, layer |-> 3, bitrate_kbps |-> 64] }

\* mem::zeroed() frame info.
ZeroInfo == [hz |-> 0, channels |-> 0, layer |-> 0, bitrate_kbps |-> 0]

\* Samples per channel of one frame.
FrameSamples == MAX_SAMPLES_PER_FRAME \div 2

\* Length of the longest prefix of w whose bytes all equal b.
RECURSIVE Run(_, _)
Run(w, b) ==
    IF w = <<>> \/ Head(w) # b THEN 0 ELSE 1 + Run(Tail(w), b)

NoFrame(bytes) ==
    [samples |-> 0, frame_bytes |-> bytes, info |-> ZeroInfo, id |-> 0]

FrameAt(w, skipped) ==
    { [samples |-> FrameSamples, frame_bytes |-> skipped + FrameLen,
       info |-> fi, id |-> w[skipped + 1]] : fi \in FrameInfos }

\* The outcomes mp3dec_decode_frame may report on the byte window w:
\* samples per channel (0: no frame decoded), the bytes consumed, the frame
\* metadata, and (for the model only) which frame of the stream was decoded.
\*  - an empty window, or one holding only the start of a frame: nothing
\*    decoded, nothing consumed;
\*  - leading garbage: it is skipped and reported as consumed, either alone
\*    or together with the complete frame that follows it;
\*  - a complete frame at the front: decoded and consumed.
mp3dec_decode_frame(w) ==
    IF w = <<>> THEN {NoFrame(0)}
    ELSE LET g == Run(w, 0)
             r == Run(w, Head(w))
         IN IF g > 0
            THEN {NoFrame(g)} \cup
                 (IF Len(w) >= g + FrameLen /\ Run(SubSeq(w, g + 1, Len(w)), w[g + 1]) = FrameLen
                  THEN FrameAt(w, g) ELSE {})
            ELSE IF r = FrameLen THEN FrameAt(w, 0)
            ELSE IF r = Len(w) THEN {NoFrame(0)}
            ELSE {NoFrame(r)}

\* The samples the primitive writes through the output pointer: channels *
\* samples values at the front of the allocation, the rest untouched.  A
\* sample written for frame id is modelled as the value id.
WriteSamples(data, out) ==
    LET n == out.info.channels * out.samples
    IN [i \in 1..Len(data) |-> IF i <= n THEN out.id ELSE data[i]]

\* --------------------------------------------------------------------- Pcm

\* Pcm::new
PcmNew ==
    [data |-> [i \in 1..MAX_SAMPLES_PER_FRAME |-> 0],
     capacity |-> MAX_SAMPLES_PER_FRAME]

\* <Pcm as ResizableBuf>::try_reserve: reserves, and always answers true.
PcmTryReserve(p, capacity) ==
    LET additional == Max(capacity - p.capacity, 0)
    IN [ok |-> TRUE,
        pcm |-> [p EXCEPT !.capacity = Max(p.capacity, Len(p.data) + additional)]]

\* A caller's buffer type whose try_reserve reports failure.
FailingTryReserve(p, capacity) == [ok |-> FALSE, pcm |-> p]

try_reserve(kind, p, capacity) ==
    IF kind = "Pcm" THEN PcmTryReserve(p, capacity) ELSE FailingTryReserve(p, capacity)

\* <Pcm as InterleavedBufMut>::set_interleaved_topology: does nothing.
set_interleaved_topology(p, channels, frames) == p

\* <Pcm as Deref>::deref: the whole vector.
PcmView(p) == p.data

\* ------------------------------------------------------------- ring buffer

\* Mutant of truncate_front: the first len elements are kept (truncate).
truncate_back(buf, len) ==
    IF len >= Len(buf) THEN buf ELSE SubSeq(buf, 1, len)

\* SliceDeque::truncate_front(len): keeps the last len elements.
truncate_front(buf, len) ==
    IF len >= Len(buf) THEN buf ELSE SubSeq(buf, Len(buf) - len + 1, Len(buf))

\* Mutant of extend: the bytes are put in front of the buffer.
extend_front(buf, bytes) == bytes \o buf

\* SliceDeque::extend
extend(buf, bytes) == buf \o bytes

\* The scratch array buffer_refill after a read that delivered the bytes
\* `delivered`: they are at its front, the rest keeps what it held (bytes of
\* no frame).
Scratch(delivered) ==
    delivered \o [i \in 1..(BUFFER_REFILL_LEN - Len(delivered)) |-> 0]

\* Mutant of refill: the whole scratch array is appended, not only the bytes
\* the read delivered.
refillWholeScratch(buf, delivered) ==
    [buffer |-> extend(buf, Scratch(delivered)), read_bytes |-> Len(delivered)]

\* Decoder::refill after its read delivered the bytes `delivered` (lines
\* 345-348): the first read_bytes bytes of the scratch array are appended.
refill(buf, delivered) ==
    LET read_bytes == Len(delivered)
    IN [buffer |-> extend(buf, SubSeq(Scratch(delivered), 1, read_bytes)),
        read_bytes |-> read_bytes]

\* ----------------------------------------------------------------- decoder

VARIABLES
    stream,         \* the bytes the reader will deliver, in order
    pos,            \* reader: number of bytes of stream delivered so far
    buffer,         \* Decoder.buffer, the byte ring buffer
    client,         \* the caller's buffer type: "Pcm", or "Failing" (try_reserve fails)
    pc,             \* "idle": no call running; "loop": at the top of the drive loop
    api,            \* the public function of the running (or last) call
    bytes_read,     \* the local bytes_read of the iteration that returned, None
                    \* while it is out of scope (between iterations)
    pcm,            \* the sample buffer of the running (or last) call: the local
                    \* Pcm of next_frame, or the buffer next_frame_with_pcm was passed
    own,            \* the caller's own reusable buffer, as its last call left it
    result,         \* what the last call returned, NoResult while a call runs
    reported,       \* what the primitive last reported in the running (or last) call
    ncalls,         \* calls finished so far
    nframes,        \* calls that returned a frame so far
    eof_seen,       \* some call has returned Eof
    io_failed,      \* some read has failed with an I/O error
    reads,          \* reads issued by the running (or last) call, up to CountCap
    decodes,        \* primitive invocations of the running (or last) call, up to CountCap
    reserve_failed, \* try_reserve has answered false in the running (or last) call
    tick,           \* parity of the iterations the running call has made
    iter,           \* reads issued and primitive invocations made by the last
                    \* iteration of the running (or last) call
    consumed,       \* sum of the bytes the primitive has reported as consumed
    cancelled,      \* some suspended call has been abandoned
    twin            \* a decoder driven through the blocking loop with the read
                    \* results and decode outcomes of the suspending calls

vars == <<stream, pos, buffer, client, pc, api, bytes_read, pcm, own, result,
          reported, ncalls, nframes, eof_seen, io_failed, reads, decodes, reserve_failed,
          tick, iter, consumed, cancelled, twin>>

None == [some |-> FALSE, val |-> 0]
Some(n) == [some |-> TRUE, val |-> n]

\* FrameInfo built from the primitive's frame info (lines 211-216).
FrameInfoOf(fi) ==
    [sample_rate |-> fi.hz, channels |-> fi.channels,
     layer |-> fi.layer, bitrate |-> fi.bitrate_kbps]

Ok(frame) == [tag |-> "Ok", frame |-> frame]
Err(e) == [tag |-> e, frame |-> FrameInfoOf(ZeroInfo)]

\* Decoder::decode_frame on ring buffer buf and sample buffer p of type kind,
\* where out is what the primitive reports if it is invoked.  Gives the
\* function's result and the ring buffer and sample buffer it leaves.
decode_frame(buf, kind, p, out) ==
    LET rs == try_reserve(kind, p, MAX_SAMPLES_PER_FRAME)
    IN IF ~rs.ok
       THEN [result |-> Err("InsufficientData"), buffer |-> buf, pcm |-> rs.pcm,
             invoked |-> FALSE]
       ELSE LET written == [rs.pcm EXCEPT !.data = WriteSamples(@, out)]
                p2 == IF out.samples > 0
                      THEN set_interleaved_topology(written, out.info.channels, out.samples)
                      ELSE written
                frame == FrameInfoOf(out.info)
                current_len == Len(buf)
                buf2 == truncate_front(buf, current_len - out.frame_bytes)
            IN [result |-> IF out.samples = 0
                           THEN IF out.frame_bytes > 0
                                THEN Err("SkippedData")
                                ELSE Err("InsufficientData")
                           ELSE Ok(frame),
                buffer |-> buf2, pcm |-> p2, invoked |-> TRUE]

\* Mutant of ShouldRefill: an empty buffer is not refilled.
ShouldRefillNonEmpty(len) == 0 < len /\ len < REFILL_TRIGGER

\* Mutant of ShouldRefill: every iteration refills.
ShouldRefillAlways(len) == TRUE

\* The refill condition of the drive loop (line 323).
ShouldRefill(len) == len < REFILL_TRIGGER

\* Mutant of LoopMatch: Eof after any read, not only a read of 0 bytes.
LoopMatchEofOnAnyRead(r, br) ==
    IF r.tag = "Ok" THEN [ret |-> TRUE, value |-> r]
    ELSE IF r.tag \in {"InsufficientData", "SkippedData"}
         THEN IF br.some
              THEN [ret |-> TRUE, value |-> Err("Eof")]
              ELSE [ret |-> FALSE, value |-> r]
         ELSE [ret |-> TRUE, value |-> r]

\* Mutant of LoopMatch: SkippedData is not among the absorbed errors.
LoopMatchLeaksSkipped(r, br) ==
    IF r.tag = "Ok" THEN [ret |-> TRUE, value |-> r]
    ELSE IF r.tag \in {"InsufficientData"}
         THEN IF br = Some(0)
              THEN [ret |-> TRUE, value |-> Err("Eof")]
              ELSE [ret |-> FALSE, value |-> r]
         ELSE [ret |-> TRUE, value |-> r]

\* The match of the drive loop on decode_frame's result r (lines 329-340):
\* whether the call returns, and what.
LoopMatch(r, br) ==
    IF r.tag = "Ok" THEN [ret |-> TRUE, value |-> r]
    ELSE IF r.tag \in {"InsufficientData", "SkippedData"}
         THEN IF br = Some(0)
              THEN [ret |-> TRUE, value |-> Err("Eof")]
              ELSE [ret |-> FALSE, value |-> r]
         ELSE [ret |-> TRUE, value |-> r]

\* What the caller holds after a call returned value v with sample buffer p:
\* next_frame moves pcm.data into the Frame; next_frame_with_pcm returns the
\* FrameInfo and the caller reads the samples through the buffer it passed.
CallResult(a, v, p) ==
    IF v.tag = "Ok"
    THEN [kind |-> "Ok", info |-> v.frame,
          data |-> IF a = "next_frame" THEN p.data ELSE PcmView(p)]
    ELSE [kind |-> v.tag, info |-> v.frame, data |-> <<>>]

NoResult == [kind |-> "None", info |-> FrameInfoOf(ZeroInfo), data |-> <<>>]

Bump(c) == Min(c + 1, CountCap)

NoIter == [reads |-> 0, decodes |-> 0]

NoTwin ==
    [buffer |-> <<>>, pcm |-> PcmNew, own |-> PcmNew, result |-> NoResult,
     iter |-> NoIter]

Init ==
    /\ stream \in Streams
    /\ client \in {"Pcm", "Failing"}
    /\ pos = 0
    /\ buffer = <<>>
    /\ pc = "idle"
    /\ api = "none"
    /\ bytes_read = None
    /\ pcm = PcmNew
    /\ own = PcmNew
    /\ result = NoResult
    /\ reported = NoFrame(0)
    /\ ncalls = 0
    /\ nframes = 0
    /\ eof_seen = FALSE
    /\ io_failed = FALSE
    /\ reads = 0
    /\ decodes = 0
    /\ reserve_failed = FALSE
    /\ tick = 0
    /\ iter = NoIter
    /\ consumed = 0
    /\ cancelled = FALSE
    /\ twin = NoTwin

\* The caller starts next_frame (line 298): a fresh Pcm for this call.
NextFrame ==
    /\ pc = "idle" /\ ncalls < MaxCalls /\ client = "Pcm"
    /\ api' = "next_frame"
    /\ pcm' = PcmNew
    /\ pc' = "loop"
    /\ result' = NoResult /\ reported' = NoFrame(0) /\ bytes_read' = None
    /\ reads' = 0 /\ decodes' = 0 /\ reserve_failed' = FALSE /\ tick' = 0
    /\ iter' = NoIter
    /\ UNCHANGED <<stream, pos, buffer, client, own, ncalls, nframes, eof_seen,
                   io_failed, consumed, cancelled, twin>>

\* The caller starts next_frame_with_pcm on the buffer it already holds.
NextFrameWithPcm ==
    /\ pc = "idle" /\ ncalls < MaxCalls
    /\ api' = "next_frame_with_pcm"
    /\ pcm' = own
    /\ pc' = "loop"
    /\ result' = NoResult /\ reported' = NoFrame(0) /\ bytes_read' = None
    /\ reads' = 0 /\ decodes' = 0 /\ reserve_failed' = FALSE /\ tick' = 0
    /\ iter' = NoIter
    /\ UNCHANGED <<stream, pos, buffer, client, own, ncalls, nframes, eof_seen,
                   io_failed, consumed, cancelled, twin>>

\* The call returns value v, leaving sample buffer p.
Return(v, p) ==
    /\ pc' = "idle"
    /\ result' = CallResult(api, v, p)
    /\ own' = IF api = "next_frame_with_pcm" THEN p ELSE own
    /\ ncalls' = ncalls + 1
    /\ nframes' = IF v.tag = "Ok" THEN nframes + 1 ELSE nframes
    /\ eof_seen' = (eof_seen \/ v.tag = "Eof")
    /\ tick' = 0

\* decode_frame on ring buffer buf and the match on its result (lines
\* 329-340), br being the iteration's bytes_read.
DecodeAndMatch(buf, br) ==
    \E out \in mp3dec_decode_frame(buf) :
        LET d == decode_frame(buf, client, pcm, out)
            m == LoopMatch(d.result, br)
        IN /\ buffer' = d.buffer
           /\ pcm' = d.pcm
           /\ reported' = IF d.invoked THEN out ELSE reported
           /\ decodes' = IF d.invoked THEN Bump(decodes) ELSE decodes
           /\ reserve_failed' = (reserve_failed \/ ~d.invoked)
           /\ iter' = [reads |-> IF br.some THEN 1 ELSE 0,
                       decodes |-> IF d.invoked THEN 1 ELSE 0]
           /\ consumed' = IF d.invoked THEN consumed + out.frame_bytes ELSE consumed
           /\ IF m.ret
              THEN /\ Return(m.value, d.pcm)
                   /\ bytes_read' = br
              ELSE /\ pc' = "loop"
                   /\ bytes_read' = None
                   /\ tick' = 1 - tick
                   /\ UNCHANGED <<own, result, ncalls, nframes, eof_seen>>

\* One iteration of the drive loop with the buffer below the refill trigger:
\* Decoder::refill reads (the reader delivers the next n bytes of the stream:
\* at least one while any are left, none at its end) and extends the ring
\* buffer, then decode_frame and the match.
RefillIteration ==
    /\ pc = "loop" /\ ShouldRefill(Len(buffer))
    /\ \E n \in 0..Min(BUFFER_REFILL_LEN, Len(stream) - pos) :
          /\ (n = 0) <=> (pos = Len(stream))
          /\ pos' = pos + n
          /\ LET r == refill(buffer, SubSeq(stream, pos + 1, pos + n))
             IN DecodeAndMatch(r.buffer, Some(r.read_bytes))
    /\ reads' = Bump(reads)
    /\ UNCHANGED <<stream, client, api, io_failed, cancelled, twin>>

\* Mutant of RefillFails: the read's error is taken for the end of the input
\* (a read of 0 bytes) and the iteration goes on to decode.
RefillFailsAsEndOfInput ==
    /\ pc = "loop" /\ ShouldRefill(Len(buffer))
    /\ io_failed' = TRUE
    /\ reads' = Bump(reads)
    /\ DecodeAndMatch(buffer, Some(0))
    /\ UNCHANGED <<stream, pos, client, api, cancelled, twin>>

\* An iteration whose read fails: `?` returns the I/O error (line 324) before
\* anything else happens.
RefillFails ==
    /\ pc = "loop" /\ ShouldRefill(Len(buffer))
    /\ io_failed' = TRUE
    /\ reads' = Bump(reads)
    /\ iter' = [reads |-> 1, decodes |-> 0]
    /\ Return(Err("Io"), pcm)
    /\ UNCHANGED <<stream, pos, buffer, client, api, bytes_read, pcm, reported,
                   decodes, reserve_failed, consumed, cancelled, twin>>

\* One iteration with the buffer at or above the refill trigger: no read
\* (line 326), then decode_frame and the match.
NoRefillIteration ==
    /\ pc = "loop" /\ ~ShouldRefill(Len(buffer))
    /\ DecodeAndMatch(buffer, None)
    /\ UNCHANGED <<stream, pos, client, api, io_failed, reads, cancelled, twin>>

Next ==
    \/ NextFrame
    \/ NextFrameWithPcm
    \/ RefillIteration
    \/ RefillFails
    \/ NoRefillIteration

Spec == Init /\ [][Next]_vars

\* The drive loop is sequential code: a running call keeps taking its next step.
FairSpec == Spec /\ WF_vars(RefillIteration \/ RefillFails \/ NoRefillIteration)

\* --------------------------------------------------- suspending drive loop

\* A long stream of valid frames only: long enough to overfill the ring
\* buffer if nothing stopped the refills, and for a caller that takes every
\* frame to find the buffer at the refill trigger at the start of a call.
CallsToTrigger ==
    (REFILL_TRIGGER + (BUFFER_REFILL_LEN - FrameLen) - 1)
        \div (BUFFER_REFILL_LEN - FrameLen)
LongFrames ==
    Max(((CallsToTrigger * BUFFER_REFILL_LEN + FrameLen - 1) \div FrameLen) + 1,
        (BUFFER_SIZE \div FrameLen) + 1)
LongStream == Flatten([i \in 1..LongFrames |-> "F"], 1)

\* At most this many finished calls on a decoder driven through the
\* suspending functions over stream s.
MaxFutureCalls(s) == IF s = LongStream THEN LongFrames + 1 ELSE MaxCalls

\* The sizes of the next read of an asynchronous reader that has delivered p
\* bytes of stream s: none at the end of the stream, at least one byte before
\* it.  The reader of the long stream has every byte ready and always fills
\* the scratch array.
FutureReadSizes(s, p) ==
    LET left == Len(s) - p
    IN IF left = 0 THEN {0}
       ELSE IF s = LongStream THEN {Min(BUFFER_REFILL_LEN, left)}
       ELSE 1..Min(BUFFER_REFILL_LEN, left)

\* The refill condition of next_frame_with_pcm_future (line 260).
ShouldRefillFuture(len) == len < REFILL_TRIGGER

\* Decoder::refill_future once its read has delivered the bytes `delivered`
\* (lines 284-287).
refill_future(buf, delivered) ==
    LET read_bytes == Len(delivered)
    IN [buffer |-> extend(buf, SubSeq(Scratch(delivered), 1, read_bytes)),
        read_bytes |-> read_bytes]

\* Mutant of LoopMatchFuture: SkippedData is returned to the caller.
LoopMatchFutureLeaksSkipped(r, br) ==
    IF r.tag = "Ok" THEN [ret |-> TRUE, value |-> r]
    ELSE IF r.tag = "InsufficientData"
         THEN IF br = Some(0)
              THEN [ret |-> TRUE, value |-> Err("Eof")]
              ELSE [ret |-> FALSE, value |-> r]
         ELSE [ret |-> TRUE, value |-> r]

\* The match of next_frame_with_pcm_future on decode_frame's result r (lines
\* 266-277).
LoopMatchFuture(r, br) ==
    IF r.tag = "Ok" THEN [ret |-> TRUE, value |-> r]
    ELSE IF r.tag \in {"InsufficientData", "SkippedData"}
         THEN IF br = Some(0)
              THEN [ret |-> TRUE, value |-> Err("Eof")]
              ELSE [ret |-> FALSE, value |-> r]
         ELSE [ret |-> TRUE, value |-> r]

\* What the caller holds after a suspending call returned value v with sample
\* buffer p (lines 238-249 for next_frame_future).
FutureCallResult(a, v, p) ==
    IF v.tag = "Ok"
    THEN [kind |-> "Ok", info |-> v.frame,
          data |-> IF a = "next_frame_future" THEN p.data ELSE PcmView(p)]
    ELSE [kind |-> v.tag, info |-> v.frame, data |-> <<>>]

\* One iteration of the blocking drive loop (lines 321-341) as a function of
\* the ring buffer, the sample buffer, the read's result rd (used if a read is
\* issued) and the primitive's outcome out (used if it is invoked).
BlockingIteration(buf, kind, p, rd, out) ==
    IF ShouldRefill(Len(buf))
    THEN IF rd.err
         THEN [buffer |-> buf, pcm |-> p, ret |-> TRUE, value |-> Err("Io"),
               iter |-> [reads |-> 1, decodes |-> 0]]
         ELSE LET r == refill(buf, rd.bytes)
                  d == decode_frame(r.buffer, kind, p, out)
                  m == LoopMatch(d.result, Some(r.read_bytes))
              IN [buffer |-> d.buffer, pcm |-> d.pcm, ret |-> m.ret, value |-> m.value,
                  iter |-> [reads |-> 1, decodes |-> IF d.invoked THEN 1 ELSE 0]]
    ELSE LET d == decode_frame(buf, kind, p, out)
             m == LoopMatch(d.result, None)
         IN [buffer |-> d.buffer, pcm |-> d.pcm, ret |-> m.ret, value |-> m.value,
             iter |-> [reads |-> 0, decodes |-> IF d.invoked THEN 1 ELSE 0]]

\* The blocking function that corresponds to suspending function a.
BlockingApi(a) ==
    IF a = "next_frame_future" THEN "next_frame" ELSE "next_frame_with_pcm"

\* The twin decoder starts the blocking call that corresponds to a.
TwinCall(a) ==
    twin' = [twin EXCEPT !.pcm = IF a = "next_frame_future" THEN PcmNew ELSE twin.own,
                         !.result = NoResult,
                         !.iter = NoIter]

\* The twin decoder makes one iteration of its blocking call on read result
\* rd and decode outcome out.
TwinIteration(rd, out) ==
    LET s == BlockingIteration(twin.buffer, "Pcm", twin.pcm, rd, out)
    IN twin' = [buffer |-> s.buffer,
                pcm |-> s.pcm,
                own |-> IF s.ret /\ api = "next_frame_with_pcm_future"
                        THEN s.pcm ELSE twin.own,
                result |-> IF s.ret
                           THEN CallResult(BlockingApi(api), s.value, s.pcm)
                           ELSE twin.result,
                iter |-> s.iter]

ReadOk(bytes) == [err |-> FALSE, bytes |-> bytes]
ReadErr == [err |-> TRUE, bytes |-> <<>>]

\* The state of a decoder after Decoder::new (lines 156-166), no call made.
FreshDecoder ==
    /\ pos = 0
    /\ buffer = <<>>
    /\ pc = "idle"
    /\ api = "none"
    /\ bytes_read = None
    /\ pcm = PcmNew
    /\ own = PcmNew
    /\ result = NoResult
    /\ reported = NoFrame(0)
    /\ ncalls = 0
    /\ nframes = 0
    /\ eof_seen = FALSE
    /\ io_failed = FALSE
    /\ reads = 0
    /\ decodes = 0
    /\ reserve_failed = FALSE
    /\ tick = 0
    /\ iter = NoIter
    /\ consumed = 0
    /\ cancelled = FALSE
    /\ twin = NoTwin

\* The streams the suspending functions are run on: the empty one, one and
\* two frames, garbage before a frame and between two frames, and the long one.
AsyncStreams ==
    {Flatten(s, 1) :
        s \in {<<>>, <<"F">>, <<"F", "F">>, <<"G", "F">>, <<"F", "G", "F">>}}
        \cup {LongStream}

\* A decoder over an asynchronous reader; the suspending functions take a Pcm.
InitAsync ==
    /\ stream \in AsyncStreams
    /\ client = "Pcm"
    /\ FreshDecoder

\* The caller starts next_frame_future (line 239): a fresh Pcm for this call.
NextFrameFuture ==
    /\ pc = "idle" /\ ncalls < MaxFutureCalls(stream)
    /\ api' = "next_frame_future"
    /\ pcm' = PcmNew
    /\ pc' = "loop"
    /\ result' = NoResult /\ reported' = NoFrame(0) /\ bytes_read' = None
    /\ reads' = 0 /\ decodes' = 0 /\ reserve_failed' = FALSE /\ tick' = 0
    /\ iter' = NoIter
    /\ TwinCall("next_frame_future")
    /\ UNCHANGED <<stream, pos, buffer, client, own, ncalls, nframes, eof_seen,
                   io_failed, consumed, cancelled>>

\* The caller starts next_frame_with_pcm_future on the Pcm it already holds.
NextFrameWithPcmFuture ==
    /\ pc = "idle" /\ ncalls < MaxFutureCalls(stream)
    /\ api' = "next_frame_with_pcm_future"
    /\ pcm' = own
    /\ pc' = "loop"
    /\ result' = NoResult /\ reported' = NoFrame(0) /\ bytes_read' = None
    /\ reads' = 0 /\ decodes' = 0 /\ reserve_failed' = FALSE /\ tick' = 0
    /\ iter' = NoIter
    /\ TwinCall("next_frame_with_pcm_future")
    /\ UNCHANGED <<stream, pos, buffer, client, own, ncalls, nframes, eof_seen,
                   io_failed, consumed, cancelled>>

\* The suspending call returns value v, leaving sample buffer p.
ReturnFuture(v, p) ==
    /\ pc' = "idle"
    /\ result' = FutureCallResult(api, v, p)
    /\ own' = IF api = "next_frame_with_pcm_future" THEN p ELSE own
    /\ ncalls' = ncalls + 1
    /\ nframes' = IF v.tag = "Ok" THEN nframes + 1 ELSE nframes
    /\ eof_seen' = (eof_seen \/ v.tag = "Eof")
    /\ tick' = 0

\* decode_frame on ring buffer buf and the match on its result (lines
\* 266-277), br being the iteration's bytes_read and rd the read's result.
DecodeAndMatchFuture(buf, br, rd) ==
    \E out \in mp3dec_decode_frame(buf) :
        LET d == decode_frame(buf, "Pcm", pcm, out)
            m == LoopMatchFuture(d.result, br)
        IN /\ buffer' = d.buffer
           /\ pcm' = d.pcm
           /\ reported' = IF d.invoked THEN out ELSE reported
           /\ decodes' = IF d.invoked THEN Bump(decodes) ELSE decodes
           /\ reserve_failed' = (reserve_failed \/ ~d.invoked)
           /\ iter' = [reads |-> IF br.some THEN 1 ELSE 0,
                       decodes |-> IF d.invoked THEN 1 ELSE 0]
           /\ consumed' = IF d.invoked THEN consumed + out.frame_bytes ELSE consumed
           /\ TwinIteration(rd, out)
           /\ IF m.ret
              THEN /\ ReturnFuture(m.value, d.pcm)
                   /\ bytes_read' = br
              ELSE /\ pc' = "loop"
                   /\ bytes_read' = None
                   /\ tick' = 1 - tick
                   /\ UNCHANGED <<own, result, ncalls, nframes, eof_seen>>

\* The buffer is below the refill trigger (line 260): refill_future issues its
\* read and the call is suspended at the await of line 284.  Nothing has been
\* read or appended yet.
RefillFutureSuspends ==
    /\ pc = "loop" /\ ShouldRefillFuture(Len(buffer))
    /\ pc' = "await"
    /\ UNCHANGED <<stream, pos, buffer, client, api, bytes_read, pcm, own, result,
                   reported, ncalls, nframes, eof_seen, io_failed, reads, decodes,
                   reserve_failed, tick, iter, consumed, cancelled, twin>>

\* The awaited read completes with the next n bytes of the stream: the rest
\* of refill_future, then decode_frame and the match.
RefillFutureCompletes ==
    /\ pc = "await"
    /\ \E n \in FutureReadSizes(stream, pos) :
          /\ pos' = pos + n
          /\ LET delivered == SubSeq(stream, pos + 1, pos + n)
                 r == refill_future(buffer, delivered)
             IN DecodeAndMatchFuture(r.buffer, Some(r.read_bytes), ReadOk(delivered))
    /\ reads' = Bump(reads)
    /\ UNCHANGED <<stream, client, api, io_failed, cancelled>>

\* The awaited read completes with an error: `?` returns it (line 284, 261).
RefillFutureFails ==
    /\ pc = "await"
    /\ io_failed' = TRUE
    /\ reads' = Bump(reads)
    /\ iter' = [reads |-> 1, decodes |-> 0]
    /\ ReturnFuture(Err("Io"), pcm)
    /\ TwinIteration(ReadErr, NoFrame(0))
    /\ UNCHANGED <<stream, pos, buffer, client, api, bytes_read, pcm, reported,
                   decodes, reserve_failed, consumed, cancelled>>

\* One iteration with the buffer at or above the refill trigger: no read
\* (line 263), then decode_frame and the match.
NoRefillIterationFuture ==
    /\ pc = "loop" /\ ~ShouldRefillFuture(Len(buffer))
    /\ DecodeAndMatchFuture(buffer, None, ReadOk(<<>>))
    /\ UNCHANGED <<stream, pos, client, api, io_failed, reads, cancelled>>

\* Mutant of Cancel: the pending read is lost with the call, the reader
\* having handed over bytes that were never appended.
CancelLosesRead ==
    /\ pc = "await"
    /\ pc' = "idle"
    /\ cancelled' = TRUE
    /\ own' = IF api = "next_frame_with_pcm_future" THEN pcm ELSE own
    /\ \E n \in 1..Min(BUFFER_REFILL_LEN, Len(stream) - pos) : pos' = pos + n
    /\ UNCHANGED <<stream, buffer, client, api, bytes_read, pcm, result, reported,
                   ncalls, nframes, eof_seen, io_failed, reads, decodes,
                   reserve_failed, tick, iter, consumed, twin>>

\* The caller drops the future of a call suspended at the read of line 284.
\* The read has delivered nothing, line 285 has not run: the decoder is as the
\* last iteration left it, and the caller keeps the Pcm it had lent.
Cancel ==
    /\ pc = "await"
    /\ pc' = "idle"
    /\ cancelled' = TRUE
    /\ own' = IF api = "next_frame_with_pcm_future" THEN pcm ELSE own
    /\ UNCHANGED <<stream, pos, buffer, client, api, bytes_read, pcm, result, reported,
                   ncalls, nframes, eof_seen, io_failed, reads, decodes,
                   reserve_failed, tick, iter, consumed, twin>>

NextAsync ==
    \/ NextFrameFuture
    \/ NextFrameWithPcmFuture
    \/ RefillFutureSuspends
    \/ RefillFutureCompletes
    \/ RefillFutureFails
    \/ NoRefillIterationFuture
    \/ Cancel

AsyncSpec == InitAsync /\ [][NextAsync]_vars

\* ------------------------------------------------------------ short inputs

\* Inputs shorter than one frame: up to MaxGarbage garbage bytes, then the
\* first bytes of a frame that is cut off.
ShortStreams ==
    { [i \in 1..g |-> 0] \o [i \in 1..k |-> 1] :
        <<g, k>> \in {gk \in (0..MaxGarbage) \X (0..FrameLen) : gk[1] + gk[2] < FrameLen} }

InitShort ==
    /\ stream \in ShortStreams
    /\ client \in {"Pcm", "Failing"}
    /\ FreshDecoder

\* The drive loop on a short input: the buffer never reaches the refill
\* trigger, so every iteration reads.
NextShort ==
    \/ NextFrame
    \/ NextFrameWithPcm
    \/ RefillIteration
    \/ RefillFails

ShortSpec == InitShort /\ [][NextShort]_vars

\* Bytes requested from the reader by the reads the running (or last) call
\* is known to have issued: every read is handed the whole scratch array
\* (line 345).
RequestedBytes == reads * BUFFER_REFILL_LEN

\* ------------------------------------------------------------- long inputs

\* A decoder over the long stream, for either kind of caller's buffer.
InitLong ==
    /\ stream = LongStream
    /\ client \in {"Pcm", "Failing"}
    /\ FreshDecoder

LongSpec == InitLong /\ [][Next]_vars

\* ------------------------------------------------------------------ claims

\* The caller uses Pcm buffers and no read has failed.
Clean == client = "Pcm" /\ ~io_failed

\* C1: on a stream of valid frames with garbage before or between them,
\* delivered in any chunking and then followed by zero-byte reads, the calls
\* return every valid frame exactly once and in stream order before the first
\* Eof, and garbage never gives an error result: the k-th frame returned is
\* the k-th frame of the stream, no call returns anything but a frame or
\* Eof, and once Eof has been returned all frames of the stream have been.
AllFramesBeforeEof ==
    Clean =>
        /\ result.kind \in {"None", "Ok", "Eof"}
        /\ (result.kind = "Ok" => result.data[1] = nframes)
        /\ (eof_seen => nframes = NumFrames(stream))

\* C2: on a stream of exactly N >= 1 valid frames and nothing else, in any
\* chunking, call k <= N returns the k-th frame with the metadata the
\* primitive reported for it, and call N + 1 returns Eof.
ValidFramesThenEof ==
    (Clean /\ ~HasGarbage(stream) /\ NumFrames(stream) >= 1
        /\ pc = "idle" /\ 1 <= ncalls /\ ncalls <= NumFrames(stream) + 1) =>
        IF ncalls <= NumFrames(stream)
        THEN /\ result.kind = "Ok"
             /\ result.data[1] = ncalls
             /\ result.info.sample_rate = reported.info.hz
             /\ result.info.channels = reported.info.channels
             /\ result.info.layer = reported.info.layer
             /\ result.info.bitrate = reported.info.bitrate_kbps
             /\ reported.id = ncalls
        ELSE result.kind = "Eof"

\* Witness of C2: a stream of two frames, two next_frame calls returned them
\* and the third call has returned Eof.
TwoFramesThenEofReached ==
    /\ Clean /\ ~HasGarbage(stream) /\ NumFrames(stream) = 2
    /\ pc = "idle" /\ api = "next_frame" /\ ncalls = 3 /\ nframes = 2
    /\ result.kind = "Eof"

\* The first call on a fresh decoder whose reader is at its end at once.
FirstCallOnEmptyInput ==
    /\ Clean /\ stream = <<>>
    /\ (ncalls = 0 /\ pc = "loop") \/ (ncalls = 1 /\ pc = "idle")

\* C3: on a fresh decoder whose reader returns 0 bytes on its first read, the
\* first call returns Eof after exactly one read and one invocation of the
\* primitive, on the empty buffer, and never comes back to the top of the loop.
EmptyInputEofAtOnce ==
    FirstCallOnEmptyInput =>
        IF pc = "loop"
        THEN reads = 0 /\ decodes = 0 /\ tick = 0
        ELSE /\ result.kind = "Eof"
             /\ reads = 1 /\ decodes = 1
             /\ bytes_read = Some(0)
             /\ reported = NoFrame(0) /\ buffer = <<>>

\* Witness of C3: the first next_frame call on an empty input has returned.
EmptyInputEofReached ==
    /\ FirstCallOnEmptyInput /\ pc = "idle" /\ api = "next_frame"
    /\ result.kind = "Eof" /\ reads = 1 /\ decodes = 1

\* C4: every call terminates (in a frame, Eof or a fatal error): a running
\* call eventually returns.
CallTerminates == (pc = "loop") ~> (pc = "idle")

ReserveFailureIsFatal ==
    reserve_failed => (pc = "idle" /\ result.kind = "AllocationFailure")

\* C7: Eof is terminal: once a call has returned Eof, no later call returns
\* a frame.
EofIsTerminal == eof_seen => result.kind # "Ok"

\* C8: after a successful call the length of the sample buffer's content
\* (the Pcm view, Frame.data) is channels * samples as the primitive
\* reported them, with channels the returned metadata's channel count.
PcmLengthMatchesTopology ==
    result.kind = "Ok" =>
        /\ Len(result.data) = reported.info.channels * reported.samples
        /\ result.info.channels = reported.info.channels

\* C9: with the same Pcm passed to successive calls, the view after a call
\* holds no sample of an earlier frame: every sample readable through it was
\* written for the frame just returned (or was never written).
NoStaleSamples ==
    result.kind = "Ok" =>
        \A i \in DOMAIN result.data : result.data[i] \in {0, reported.id}

\* C10: a freshly constructed Pcm has zero length and capacity for one
\* maximal frame: so it is when next_frame has made one and the primitive
\* has not yet written to it.
FreshPcmIsEmpty ==
    (pc = "loop" /\ api = "next_frame" /\ decodes = 0) =>
        /\ Len(PcmView(pcm)) = 0
        /\ pcm.capacity >= MAX_SAMPLES_PER_FRAME

\* C11: the suspending drive loop and the blocking one are equivalent.  The
\* twin decoder starts as the decoder does and makes, through the blocking
\* loop, every call the suspending functions complete, with the same read
\* results and decode outcomes: after every step both have the same ring
\* buffer, the same sample buffers, issued the same reads and primitive
\* invocations in the last iteration, and returned the same result.
SuspendingMatchesBlocking ==
    /\ twin.buffer = buffer
    /\ twin.pcm = pcm
    /\ twin.own = own
    /\ twin.iter = iter
    /\ twin.result = result

\* C11 witness: a suspending call has returned a frame from an iteration
\* that issued no read, after a call that ended in an I/O error.
SuspendingFrameWithoutReadReached ==
    /\ pc = "idle" /\ api = "next_frame_with_pcm_future"
    /\ result.kind = "Ok" /\ iter = [reads |-> 0, decodes |-> 1]
    /\ io_failed
    /\ twin.result = result

\* C12: abandoning a call suspended at the refill read leaves the decoder
\* consistent.  Once a call has been abandoned, the ring buffer is still
\* exactly the stream's bytes between those consumed and those read (no
\* partial append, no byte dropped or duplicated), the decoder equals the twin
\* on which only the completed calls had an effect, and the calls made on a
\* stream of valid frames return its frames in order, all of them before Eof.
CancelLeavesDecoderConsistent ==
    cancelled =>
        /\ buffer = SubSeq(stream, consumed + 1, pos)
        /\ twin.buffer = buffer /\ twin.own = own
        /\ (pc = "idle" /\ ~HasGarbage(stream)) =>
              /\ result.kind = "Ok" =>
                    /\ reported.id = nframes
                    /\ result.data[1] = nframes
              /\ eof_seen => nframes = NumFrames(stream)

\* C12 witness: a call was abandoned on a stream of two valid frames, and the
\* completed calls returned both frames and then Eof.
FramesAfterCancelReached ==
    /\ cancelled /\ pc = "idle"
    /\ ~HasGarbage(stream) /\ NumFrames(stream) = 2
    /\ nframes = 2 /\ ncalls = 3 /\ result.kind = "Eof"

\* C13 as stated: on an input shorter than one frame, the bytes a call
\* requests from the reader never exceed the input length.
RequestsWithinInputLength ==
    Len(stream) < FrameLen => RequestedBytes <= Len(stream)

\* C13 amended: on an input shorter than one frame, the bytes the reads
\* deliver and the loop appends to the ring buffer never exceed the input
\* length, an iteration that does not end the call has read at least one
\* byte, and a call returns Eof only from an iteration whose read gave 0
\* bytes.
ShortInputReadsOnlyToEof ==
    /\ [](Len(stream) < FrameLen =>
            /\ consumed + Len(buffer) <= Len(stream)
            /\ pos <= Len(stream)
            /\ (pc = "idle" /\ result.kind = "Eof") => bytes_read = Some(0))
    /\ [][(Len(stream) < FrameLen /\ pc = "loop" /\ pc' = "loop") => pos' > pos]_vars

\* C13 witness: a next_frame call has read a cut-off frame of FrameLen - 1
\* bytes in several reads and returned Eof.
ShortInputEofReached ==
    /\ Len(stream) = FrameLen - 1 /\ ~HasGarbage(stream)
    /\ pc = "idle" /\ api = "next_frame" /\ ncalls = 1
    /\ result.kind = "Eof" /\ reads = CountCap /\ pos = Len(stream)

\* C14: the ring-buffer occupancy never exceeds the capacity the buffer was
\* created with, 15 * MAX_SAMPLES_PER_FRAME: it stays below the refill
\* trigger plus the scratch size, so no append needs a reallocation.
OccupancyWithinCapacity ==
    /\ Len(buffer) <= BUFFER_SIZE
    /\ Len(buffer) < REFILL_TRIGGER + BUFFER_REFILL_LEN

\* C14 witness: the fullest the buffer gets, a full scratch array appended
\* to a buffer one byte below the refill trigger.
FullestBufferReached ==
    /\ Len(stream) > BUFFER_SIZE
    /\ Len(buffer) = REFILL_TRIGGER - 1 + BUFFER_REFILL_LEN

\* C15: every iteration that invokes the primitive leaves the ring buffer as
\* it was when the primitive was invoked (the buffer with the bytes just read
\* appended) minus exactly its first bytes_consumed bytes: bytes_consumed is
\* at most the length, the new length is the old one minus bytes_consumed,
\* and the remaining bytes are the same, in the same order.
DecodeRemovesConsumedPrefix ==
    [][(pc = "loop" /\ iter'.decodes = 1) =>
          LET before == buffer \o SubSeq(stream, pos + 1, pos')
              bytes_consumed == reported'.frame_bytes
          IN /\ bytes_consumed <= Len(before)
             /\ Len(buffer') = Len(before) - bytes_consumed
             /\ buffer' = SubSeq(before, bytes_consumed + 1, Len(before))]_vars

\* C15 witness: the primitive has skipped garbage (no samples, bytes
\* consumed) and bytes of the next frame are left in the ring buffer.
SkippedPrefixRemovedReached ==
    /\ iter.decodes = 1
    /\ reported.samples = 0 /\ reported.frame_bytes > 0
    /\ Len(buffer) > 0 /\ buffer = SubSeq(stream, consumed + 1, pos)

\* C16: in each drive-loop iteration (one that the read's error does not cut
\* short) exactly one read is issued if the occupancy is below the refill
\* trigger and none if it is at or above it; what the read delivered, however
\* short, is appended as it is; and the primitive is invoked exactly once,
\* on the buffer that holds the bytes just read.
OneReadThenOneDecodePerIteration ==
    [][(pc = "loop" /\ result'.kind # "Io") =>
          LET delivered == SubSeq(stream, pos + 1, pos')
          IN /\ Len(buffer) < REFILL_TRIGGER => iter'.reads = 1
             /\ Len(buffer) >= REFILL_TRIGGER => (iter'.reads = 0 /\ pos' = pos)
             /\ Len(delivered) <= BUFFER_REFILL_LEN
             /\ Len(buffer') + (consumed' - consumed) = Len(buffer) + Len(delivered)
             /\ iter'.decodes = 1
             /\ reported' \in mp3dec_decode_frame(buffer \o delivered)]_vars

\* C17: a read of 0 bytes does not end the call by itself.  The primitive is
\* invoked once in that iteration too, the call returns the frame if it
\* produced samples, and Eof is returned only from an iteration whose read
\* gave 0 bytes and whose decode produced 0 samples.
EofOnlyAfterZeroReadAndEmptyDecode ==
    pc = "idle" =>
        /\ (bytes_read = Some(0) /\ result.kind # "Io") => iter.decodes = 1
        /\ (bytes_read = Some(0) /\ iter.decodes = 1 /\ reported.samples > 0) =>
              result.kind = "Ok"
        /\ result.kind = "Eof" =>
              /\ bytes_read = Some(0)
              /\ iter = [reads |-> 1, decodes |-> 1]
              /\ reported.samples = 0

\* C18: when the read fails (the step that makes io_failed true: the first
\* failing read of the decoder), the call returns the I/O error at once: the
\* primitive is not invoked in that iteration, the ring buffer, the reader's
\* position and the sample buffer are as before it, and later calls resume
\* from there: the buffer stays the stream window between the bytes consumed
\* and the bytes read, and the frames of a stream of valid frames still come
\* in order, none lost.
ReadErrorReturnsAtOnce ==
    /\ [][(~io_failed /\ io_failed') =>
             /\ pc' = "idle" /\ result'.kind = "Io"
             /\ iter'.decodes = 0 /\ reported' = reported
             /\ buffer' = buffer /\ pos' = pos /\ consumed' = consumed
             /\ pcm' = pcm]_vars
    /\ [](io_failed =>
             /\ buffer = SubSeq(stream, consumed + 1, pos)
             /\ (pc = "idle" /\ client = "Pcm" /\ ~HasGarbage(stream)) =>
                   /\ result.kind = "Ok" => result.data[1] = nframes
                   /\ eof_seen => nframes = NumFrames(stream))

\* C18 witness: one call ended in the I/O error and the calls around it
\* returned both frames of the stream.
FramesAroundReadErrorReached ==
    /\ io_failed /\ ~eof_seen /\ pc = "idle"
    /\ NumFrames(stream) = 2 /\ ~HasGarbage(stream)
    /\ nframes = 2 /\ ncalls = 3 /\ result.kind = "Ok"

\* C19: in every reachable state the ring buffer holds exactly the bytes of
\* the input stream from the total consumed so far to the total read so far,
\* in stream order: no byte dropped, duplicated or reordered by any sequence
\* of calls, refills and truncations.
RingBufferIsStreamWindow ==
    /\ consumed <= pos /\ pos <= Len(stream)
    /\ buffer = SubSeq(stream, consumed + 1, pos)

\* C19 witness: in a later call on a stream with garbage, bytes have been
\* consumed, the buffer holds bytes and the reader has more to deliver.
WindowInMidStreamReached ==
    /\ HasGarbage(stream) /\ ncalls >= 1 /\ pc = "loop"
    /\ consumed > FrameLen /\ buffer # <<>> /\ pos < Len(stream)

====
